---- MODULE Spec2Model ----
(***************************************************************************)
(* The interactive query loop of src/app.py (main): one operator asks a    *)
(* question, the loop retrieves candidate tables, aggregates their         *)
(* schemas, asks the chat model for SQL, optionally executes it, and       *)
(* repeats until the operator types exit or quit.                          *)
(*                                                                         *)
(* Text is a sequence of one-character strings, so that lower(), strip()   *)
(* and join() are computed character by character as Python computes them. *)
(* The fixed fragments of the prompt template are single elements of the   *)
(* sequence (PromptHead, PromptSchemas, PromptQuestion, PromptAnswer).     *)
(***************************************************************************)
EXTENDS Integers, Sequences, FiniteSets, TLC

VARIABLES pc, conversation_history, user_query, table_list, schema_list,
          schema_str, prompt, content,
          calls, asked, completed, history_sent, prev_candidates, syntheses

vars == <<pc, conversation_history, user_query, table_list, schema_list,
          schema_str, prompt, content,
          calls, asked, completed, history_sent, prev_candidates, syntheses>>

\* bookkeeping of the properties: the history handed to the last chat call,
\* the number of candidates of the turn before, the successful syntheses
ghosts == <<history_sent, prev_candidates, syntheses>>

(***************************************************************************)
(* Bounds                                                                  *)
(***************************************************************************)
\* number of questions the operator asks before only exit/quit is typed
MaxTurns == 2

(***************************************************************************)
(* Text helpers: str.lower, str.strip, str.join                            *)
(***************************************************************************)
UpperCase ==
  <<"A","B","C","D","E","F","G","H","I","J","K","L","M",
    "N","O","P","Q","R","S","T","U","V","W","X","Y","Z">>

LowerCase ==
  <<"a","b","c","d","e","f","g","h","i","j","k","l","m",
    "n","o","p","q","r","s","t","u","v","w","x","y","z">>

Whitespace == {" ", "\t", "\n", "\r", "\f"}

lower_char(c) ==
  IF \E i \in 1..Len(UpperCase) : UpperCase[i] = c
  THEN LowerCase[CHOOSE i \in 1..Len(UpperCase) : UpperCase[i] = c]
  ELSE c

lower(s) == [i \in 1..Len(s) |-> lower_char(s[i])]

RECURSIVE lstrip(_)
lstrip(s) ==
  IF s # <<>> /\ Head(s) \in Whitespace THEN lstrip(Tail(s)) ELSE s

RECURSIVE rstrip(_)
rstrip(s) ==
  IF s # <<>> /\ s[Len(s)] \in Whitespace
  THEN rstrip(SubSeq(s, 1, Len(s) - 1))
  ELSE s

strip(s) == rstrip(lstrip(s))

\* sep.join(list)
RECURSIVE join(_, _)
join(sep, list) ==
  IF list = <<>> THEN <<>>
  ELSE IF Len(list) = 1 THEN list[1]
  ELSE list[1] \o sep \o join(sep, Tail(list))

(***************************************************************************)
(* Literals of main()                                                      *)
(***************************************************************************)
system_message ==
  <<"You are an expert in SQL database querying and are assisting a Data Engineer.">>

ExitWords == { <<"e","x","i","t">>, <<"q","u","i","t">> }

Yes == <<"y","e","s">>

Bullet == <<"-"," ">>

Separator == <<"\n","\n","-"," ">>

Top == 3

PromptHead == "Based on the multiple database schemas below, first select the best database schema based on the query "

PromptSchemas == " and then return the answer in the following formats to run my queries using the odbc python client: [Example 1] [Example 2] Provide only the query and nothing else, avoiding any conversational fluff. \n\nSchemas:\n "

PromptQuestion == "\n\n---\n\nQuestion: "

PromptAnswer == "\nAnswer:"

(***************************************************************************)
(* Inputs: what the operator types and what the collaborators return       *)
(***************************************************************************)
QueryInputs ==
  { <<"e","x","i","t">>, <<"E","X","I","T">>, <<"Q","u","i","t">>,
    <<"e","x","i","t"," ">>, <<"A","?">> }

DecisionInputs ==
  { <<"y","e","s">>, <<" "," ","Y","E","S"," ">>, <<"n","o">>,
    <<"e","x","i","t">>, <<"Q","u","i","t">>, <<"y"," ","e","s">> }

Tables == {"orders", "ghost"}

\* the wider index used when only the aggregation is explored
AggTables == Tables \cup {"customers", "items", "notes"}

Scores == {1, 2}

Docs == [table_name : Tables, score : Scores]

RECURSIVE SeqsUpTo(_, _)
SeqsUpTo(S, n) ==
  IF n = 0 THEN { <<>> }
  ELSE LET shorter == SeqsUpTo(S, n - 1)
       IN  shorter \cup { Append(q, x) : q \in shorter, x \in S }

\* search(..., top=3): at most Top ranked documents
SearchResults == SeqsUpTo(Docs, Top)

Replies == { <<"S","Q","L","1">>, <<"S","Q","L","2">> }

\* rows returned by execute_and_fetch; a row without a first column cannot be printed
RowSets == { <<>>, << <<"1">>, <<"2">> >>, << <<"1">>, <<>> >> }

(***************************************************************************)
(* Collaborators outside src/app.py                                        *)
(***************************************************************************)
\* AzureSQLManager.process_schema: one deterministic text per table; a table
\* it cannot resolve yields the empty text
process_schema(table_name) ==
  CASE table_name = "orders"    -> <<"i","d">>
    [] table_name = "customers" -> <<"a","\n","\n","-"," ","b">>
    [] table_name = "items"     -> <<"c","\n">>
    [] table_name = "notes"     -> <<"\n","d">>
    [] OTHER                    -> <<>>

\* AzureOpenAIManager.generate_chat_response leaves the history it is given
\* untouched: only the driving loop mutates it
HistoryAfterChatCall(history) == history

(***************************************************************************)
(* The pieces of main()                                                    *)
(***************************************************************************)
\* one entry of the per-turn trace of prompts and collaborator calls
Call(op, arg, ok, ret) == [op |-> op, arg |-> arg, ok |-> ok, ret |-> ret]

IsExitCommand_exact(query) == query \in ExitWords

IsExitCommand_strip(query) == lower(strip(query)) \in ExitWords

\* user_query.lower() in ["exit", "quit"]
IsExitCommand(query) == lower(query) \in ExitWords

get_run_query_decision_nostrip(line) == lower(line)

\* input(...).strip().lower()
get_run_query_decision(line) == lower(strip(line))

RECURSIVE CollectTableNames_dedup(_)
CollectTableNames_dedup(docs) ==
  IF docs = <<>> THEN <<>>
  ELSE LET init == CollectTableNames_dedup(SubSeq(docs, 1, Len(docs) - 1))
           name == docs[Len(docs)].table_name
       IN  IF \E i \in 1..Len(init) : init[i] = name
           THEN init ELSE Append(init, name)

\* for doc in r: table_list.append(doc["table_name"])
CollectTableNames(docs) == [i \in 1..Len(docs) |-> docs[i].table_name]

FormatSchemaStr_newline(schemas) == Bullet \o join(<<"\n","-"," ">>, schemas)

FormatSchemaStr_guarded(schemas) ==
  IF schemas = <<>> THEN <<>> ELSE Bullet \o join(Separator, schemas)

\* '- ' + "\n\n- ".join([f"{x}" for x in schema_list])
FormatSchemaStr(schemas) == Bullet \o join(Separator, schemas)

\* the f-string prompt: template, question, schema block, question again
BuildPromptText(query, schemas_text) ==
  <<PromptHead>> \o query \o <<PromptSchemas>> \o schemas_text
    \o <<PromptQuestion>> \o query \o <<PromptAnswer>>

AppendTurn_prompt(history, query, prompt_text, reply) ==
  history \o << [role |-> "user", content |-> prompt_text],
                [role |-> "assistant", content |-> reply] >>

AppendTurn_system(history, query, prompt_text, reply) ==
  history \o << [role |-> "system", content |-> system_message],
                [role |-> "user", content |-> query],
                [role |-> "assistant", content |-> reply] >>

AppendTurn_pruned(history, query, prompt_text, reply) ==
  (IF Len(history) >= 3 THEN <<history[1]>> ELSE history)
    \o << [role |-> "user", content |-> query],
          [role |-> "assistant", content |-> reply] >>

\* conversation_history.append(user question); .append(assistant content)
AppendTurn(history, query, prompt_text, reply) ==
  history \o << [role |-> "user", content |-> query],
                [role |-> "assistant", content |-> reply] >>

ExecuteArgument_first(reply, history) ==
  IF Len(history) >= 3 THEN history[3].content ELSE reply

\* az_sql_client.execute_and_fetch(content)
ExecuteArgument(reply, history) == reply

\* TRUE when every row has a first column to print, FALSE when result[0] raises
pretty_print_results(results) == \A i \in 1..Len(results) : Len(results[i]) >= 1

ChatContext_withQuestion(history, query) ==
  Append(history, [role |-> "user", content |-> query])

\* conversation_history=conversation_history: the history as it stands before
\* the appends of lines 113-114
ChatContext(history, query) == history

AfterDecision_exit(decision) ==
  IF decision = Yes THEN "Executing"
  ELSE IF decision \in ExitWords THEN "Exited" ELSE "AwaitingQuery"

AfterDecision_idle(decision) ==
  IF decision = Yes THEN "Executing" ELSE "Idle"

\* if run_query_decision == "yes": ... ; otherwise the loop body ends
AfterDecision(decision) ==
  IF decision = Yes THEN "Executing" ELSE "AwaitingQuery"

AfterUncaughtFailure_caught == "AwaitingQuery"

\* no try block around embedding, search, schema fetch and chat completion
AfterUncaughtFailure == "Crashed"

AfterExecutionFailure_retry == "Executing"

AfterExecutionFailure_uncaught == "Crashed"

\* except Exception: logger.error(...), then the loop continues
AfterExecutionFailure == "AwaitingQuery"

(***************************************************************************)
(* State machine                                                           *)
(***************************************************************************)
Init ==
  /\ pc = "AwaitingQuery"
  /\ conversation_history = << [role |-> "system", content |-> system_message] >>
  /\ user_query = <<>>
  /\ table_list = <<>>
  /\ schema_list = <<>>
  /\ schema_str = <<>>
  /\ prompt = <<>>
  /\ content = <<>>
  /\ calls = <<>>
  /\ asked = <<>>
  /\ completed = 0
  /\ history_sent = <<>>
  /\ prev_candidates = 0
  /\ syntheses = 0

\* lines 57-61: read one line; exit/quit leaves the loop
GetUserQuery ==
  /\ pc = "AwaitingQuery"
  /\ \E line \in QueryInputs :
       /\ ~IsExitCommand(line) => Len(asked) < MaxTurns
       /\ user_query' = line
       /\ calls' = << Call("get_user_query", <<>>, TRUE, line) >>
       /\ IF IsExitCommand(line)
          THEN pc' = "Exited" /\ asked' = asked
          ELSE pc' = "Retrieving" /\ asked' = Append(asked, line)
  /\ UNCHANGED <<conversation_history, table_list, schema_list, schema_str,
                 prompt, content, completed>>
  /\ UNCHANGED ghosts

\* line 63: az_client.generate_embedding(user_query)
GenerateEmbedding ==
  /\ pc = "Retrieving"
  /\ \E ok \in BOOLEAN :
       /\ calls' = Append(calls, Call("generate_embedding", user_query, ok, <<>>))
       /\ pc' = IF ok THEN "Searching" ELSE AfterUncaughtFailure
  /\ UNCHANGED <<conversation_history, user_query, table_list, schema_list,
                 schema_str, prompt, content, asked, completed>>
  /\ UNCHANGED ghosts

Search_noreset ==
  /\ pc = "Searching"
  /\ \/ \E docs \in SearchResults :
          /\ table_list' = table_list \o CollectTableNames(docs)
          /\ schema_list' = <<>>
          /\ prev_candidates' = Len(table_list)
          /\ calls' = Append(calls, Call("search", user_query, TRUE,
                                         [i \in 1..Len(docs) |-> docs[i].table_name]))
          /\ pc' = "Aggregating"
     \/ /\ calls' = Append(calls, Call("search", user_query, FALSE, <<>>))
        /\ pc' = AfterUncaughtFailure
        /\ UNCHANGED <<table_list, schema_list, prev_candidates>>
  /\ UNCHANGED <<conversation_history, user_query, schema_str, prompt, content,
                 asked, completed, history_sent, syntheses>>

\* lines 65-85: search, rebuild table_list from empty, reset schema_list
Search ==
  /\ pc = "Searching"
  /\ \/ \E docs \in SearchResults :
          /\ table_list' = CollectTableNames(docs)
          /\ schema_list' = <<>>
          /\ prev_candidates' = Len(table_list)
          /\ calls' = Append(calls, Call("search", user_query, TRUE,
                                         [i \in 1..Len(docs) |-> docs[i].table_name]))
          /\ pc' = "Aggregating"
     \/ /\ calls' = Append(calls, Call("search", user_query, FALSE, <<>>))
        /\ pc' = AfterUncaughtFailure
        /\ UNCHANGED <<table_list, schema_list, prev_candidates>>
  /\ UNCHANGED <<conversation_history, user_query, schema_str, prompt, content,
                 asked, completed, history_sent, syntheses>>

\* lines 87-88: one process_schema call per table name, in order; a call
\* that raises is not caught
ProcessSchema ==
  /\ pc = "Aggregating"
  /\ Len(schema_list) < Len(table_list)
  /\ LET table_name == table_list[Len(schema_list) + 1]
     IN  \/ /\ schema_list' = Append(schema_list, process_schema(table_name))
            /\ calls' = Append(calls, Call("process_schema", <<table_name>>, TRUE,
                                           process_schema(table_name)))
            /\ pc' = pc
         \/ /\ calls' = Append(calls, Call("process_schema", <<table_name>>, FALSE, <<>>))
            /\ pc' = AfterUncaughtFailure
            /\ UNCHANGED schema_list
  /\ UNCHANGED <<conversation_history, user_query, table_list, schema_str,
                 prompt, content, asked, completed>>
  /\ UNCHANGED ghosts

\* lines 89-105: the schema block and the prompt
BuildPrompt ==
  /\ pc = "Aggregating"
  /\ Len(schema_list) = Len(table_list)
  /\ schema_str' = FormatSchemaStr(schema_list)
  /\ prompt' = BuildPromptText(user_query, FormatSchemaStr(schema_list))
  /\ pc' = "Synthesizing"
  /\ UNCHANGED <<conversation_history, user_query, table_list, schema_list,
                 content, calls, asked, completed>>
  /\ UNCHANGED ghosts

GenerateChatResponse_lateappend ==
  /\ pc = "Synthesizing"
  /\ history_sent' = ChatContext(conversation_history, user_query)
  /\ \/ \E reply \in Replies :
          /\ content' = reply
          /\ conversation_history' = conversation_history
          /\ syntheses' = syntheses + 1
          /\ calls' = Append(calls, Call("generate_chat_response", prompt, TRUE, reply))
          /\ pc' = "AwaitingExecutionDecision"
     \/ /\ calls' = Append(calls, Call("generate_chat_response", prompt, FALSE, <<>>))
        /\ pc' = AfterUncaughtFailure
        /\ UNCHANGED <<content, conversation_history, syntheses>>
  /\ UNCHANGED <<user_query, table_list, schema_list, schema_str, prompt,
                 asked, completed, prev_candidates>>

\* lines 106-114: chat completion, then the two appends to the history
GenerateChatResponse ==
  /\ pc = "Synthesizing"
  /\ history_sent' = ChatContext(conversation_history, user_query)
  /\ \/ \E reply \in Replies :
          /\ content' = reply
          /\ conversation_history' = 
               AppendTurn(HistoryAfterChatCall(conversation_history),
                          user_query, prompt, reply)
          /\ syntheses' = syntheses + 1
          /\ calls' = Append(calls, Call("generate_chat_response", prompt, TRUE, reply))
          /\ pc' = "AwaitingExecutionDecision"
     \/ /\ calls' = Append(calls, Call("generate_chat_response", prompt, FALSE, <<>>))
        /\ pc' = AfterUncaughtFailure
        /\ UNCHANGED <<content, conversation_history, syntheses>>
  /\ UNCHANGED <<user_query, table_list, schema_list, schema_str, prompt,
                 asked, completed, prev_candidates>>

\* lines 116-117: the execution decision; anything but "yes" ends the turn
GetRunQueryDecision ==
  /\ pc = "AwaitingExecutionDecision"
  /\ \E line \in DecisionInputs :
       /\ calls' = Append(calls, Call("get_run_query_decision", <<>>, TRUE, line))
       /\ pc' = AfterDecision(get_run_query_decision(line))
       /\ completed' = IF pc' = "AwaitingQuery" THEN completed + 1 ELSE completed
  /\ UNCHANGED <<conversation_history, user_query, table_list, schema_list,
                 schema_str, prompt, content, asked>>
  /\ UNCHANGED ghosts

\* lines 118-126: execute, print the rows; any Exception is logged
ExecuteAndFetch ==
  /\ pc = "Executing"
  /\ LET sql == ExecuteArgument(content, conversation_history)
     IN  \/ \E output \in RowSets :
              IF pretty_print_results(output)
              THEN /\ calls' = calls \o << Call("execute_and_fetch", sql, TRUE, <<>>),
                                           Call("pretty_print_results", <<>>, TRUE, <<>>) >>
                   /\ pc' = "AwaitingQuery"
              ELSE /\ calls' = calls \o << Call("execute_and_fetch", sql, TRUE, <<>>),
                                           Call("pretty_print_results", <<>>, FALSE, <<>>),
                                           Call("logger.error", <<>>, TRUE, <<>>) >>
                   /\ pc' = AfterExecutionFailure
         \/ /\ calls' = calls \o << Call("execute_and_fetch", sql, FALSE, <<>>),
                                     Call("logger.error", <<>>, TRUE, <<>>) >>
            /\ pc' = AfterExecutionFailure
  /\ completed' = completed + 1
  /\ UNCHANGED <<conversation_history, user_query, table_list, schema_list,
                 schema_str, prompt, content, asked>>
  /\ UNCHANGED ghosts

Next ==
  \/ GetUserQuery
  \/ GenerateEmbedding
  \/ Search
  \/ ProcessSchema
  \/ BuildPrompt
  \/ GenerateChatResponse
  \/ GetRunQueryDecision
  \/ ExecuteAndFetch

Spec == Init /\ [][Next]_vars

(***************************************************************************)
(* The aggregation alone (lines 85-105), started right after the search of *)
(* a first turn has returned any list of up to Top names of AggTables      *)
(***************************************************************************)
InitAgg ==
  \E query \in {q \in QueryInputs : ~IsExitCommand(q)} :
    \E names \in SeqsUpTo(AggTables, Top) :
      /\ pc = "Aggregating"
      /\ conversation_history = << [role |-> "system", content |-> system_message] >>
      /\ user_query = query
      /\ table_list = names
      /\ schema_list = <<>>
      /\ schema_str = <<>>
      /\ prompt = <<>>
      /\ content = <<>>
          /\ calls = << Call("get_user_query", <<>>, TRUE, query),
                    Call("generate_embedding", query, TRUE, <<>>),
                    Call("search", query, TRUE, names) >>
      /\ asked = <<query>>
      /\ completed = 0
      /\ history_sent = <<>>
      /\ prev_candidates = 0
      /\ syntheses = 0

NextAgg ==
  \/ ProcessSchema
  \/ BuildPrompt

SpecAgg == InitAgg /\ [][NextAgg]_vars

(***************************************************************************)
(* Vocabulary of the properties                                            *)
(***************************************************************************)
Last(seq) == seq[Len(seq)]

\* the letter itself or its capital
CaseVariants(ch) ==
  {ch} \cup { UpperCase[i] : i \in { k \in 1..Len(LowerCase) : LowerCase[k] = ch } }

\* text is word written in any mix of upper and lower case, nothing added
IsWordAnyCase(text, word) ==
  /\ Len(text) = Len(word)
  /\ \A i \in 1..Len(word) : text[i] \in CaseVariants(word[i])

IsExitWordAnyCase(text) == \E w \in ExitWords : IsWordAnyCase(text, w)

\* text is "yes" in any case, surrounded by any amount of whitespace
IsYesTrimmedAnyCase(text) ==
  \E i \in 1..Len(text) : \E j \in i..Len(text) :
    /\ IsWordAnyCase(SubSeq(text, i, j), Yes)
    /\ \A k \in 1..Len(text) : (k < i \/ k > j) => text[k] \in Whitespace

CallsOf(op) == { i \in DOMAIN calls : calls[i].op = op }

CollaboratorOps ==
  {"generate_embedding", "search", "process_schema", "generate_chat_response",
   "execute_and_fetch"}

\* the entries a step has added to the trace of the current turn
NewCalls == IF Len(calls') > Len(calls) /\ SubSeq(calls', 1, Len(calls)) = calls
            THEN { calls'[i] : i \in (Len(calls) + 1)..Len(calls') }
            ELSE { calls'[i] : i \in DOMAIN calls' }

(***************************************************************************)
(* C1: after N completed turns the history has 1 + 2N entries, and entry   *)
(* 2i is a user entry holding the literal i-th question typed by the       *)
(* operator, not the schema-augmented prompt sent to the model.            *)
(***************************************************************************)
C1_HistoryShape ==
  /\ pc \in {"AwaitingQuery", "Exited"} =>
       /\ Len(conversation_history) = 1 + 2 * completed
       /\ conversation_history[1].role = "system"
       /\ \A i \in 1..completed :
            /\ conversation_history[2 * i].role = "user"
            /\ conversation_history[2 * i].content = asked[i]
            /\ conversation_history[2 * i + 1].role = "assistant"
  /\ pc = "AwaitingExecutionDecision" =>
       /\ conversation_history[Len(conversation_history) - 1].content = user_query
       /\ conversation_history[Len(conversation_history) - 1].content # prompt

C1_Witness ==
  /\ pc = "AwaitingQuery"
  /\ completed = 2
  /\ asked[1] # asked[2]
  /\ Len(conversation_history) = 5

(***************************************************************************)
(* C2: typing exit or quit in any letter case at the query prompt ends the *)
(* session, and that iteration makes no embedding, search, schema or chat  *)
(* call; at the first prompt and after any number of turns.                *)
(***************************************************************************)
C2_ExitEndsSession ==
  [][ (pc = "AwaitingQuery" /\ pc' # pc /\ IsExitWordAnyCase(user_query')) =>
        /\ pc' = "Exited"
        /\ \A i \in DOMAIN calls' : calls'[i].op \notin CollaboratorOps ]_vars

C2_Witness ==
  /\ pc = "Exited"
  /\ completed = 1
  /\ user_query = <<"Q","u","i","t">>
  /\ calls = << Call("get_user_query", <<>>, TRUE, user_query) >>

(***************************************************************************)
(* C3: at the execution-decision prompt an input that is not "yes" after   *)
(* trimming whitespace and ignoring case skips execution (no               *)
(* execute_and_fetch in that turn, next state AwaitingQuery); an input     *)
(* such as "  YES " enters Executing.                                      *)
(***************************************************************************)
C3_OnlyYesExecutes ==
  [][ (pc = "AwaitingExecutionDecision" /\ pc' # pc) =>
        /\ Last(calls').op = "get_run_query_decision"
        /\ IF IsYesTrimmedAnyCase(Last(calls').ret)
           THEN pc' = "Executing"
           ELSE /\ pc' = "AwaitingQuery"
                /\ \A i \in DOMAIN calls' : calls'[i].op # "execute_and_fetch" ]_vars

C3_Witness ==
  /\ pc = "AwaitingQuery"
  /\ calls # <<>>
  /\ Last(calls).op = "get_run_query_decision"
  /\ Last(calls).ret = <<"y"," ","e","s">>
  /\ CallsOf("execute_and_fetch") = {}

(***************************************************************************)
(* C4: when execute_and_fetch, or the printing of its rows, raises, the    *)
(* error is logged and the next state is AwaitingQuery.                    *)
(***************************************************************************)
C4_ExecutionFailureRecovered ==
  [][ (pc = "Executing" /\ \E c \in NewCalls : ~c.ok) =>
        /\ pc' = "AwaitingQuery"
        /\ Last(calls').op = "logger.error" ]_vars

C4_Witness ==
  /\ pc = "AwaitingQuery"
  /\ \E i \in CallsOf("pretty_print_results") : ~calls[i].ok
  /\ Last(calls).op = "logger.error"

(***************************************************************************)
(* C5: the argument of execute_and_fetch is the text returned by the chat  *)
(* completion of the same turn, unmodified, and is the content of the last *)
(* (assistant) entry of the history; never the SQL of an earlier turn.     *)
(***************************************************************************)
C5_ExecutesThisTurnsSql ==
  \A i \in CallsOf("execute_and_fetch") :
    /\ \E j \in CallsOf("generate_chat_response") :
         j < i /\ calls[j].ok /\ calls[j].ret = calls[i].arg
    /\ Last(conversation_history).role = "assistant"
    /\ Last(conversation_history).content = calls[i].arg

C5_Witness ==
  /\ Len(conversation_history) = 5
  /\ \E i \in CallsOf("execute_and_fetch") :
       calls[i].arg # conversation_history[3].content

(***************************************************************************)
(* Splitting a text on a separator, as str.split(sep) does: leftmost       *)
(* occurrences, not overlapping                                            *)
(***************************************************************************)
Occurrences(text, sep) ==
  { i \in 1..(Len(text) - Len(sep) + 1) : SubSeq(text, i, i + Len(sep) - 1) = sep }

Contains(text, sep) == Occurrences(text, sep) # {}

RECURSIVE split(_, _)
split(text, sep) ==
  IF ~Contains(text, sep) THEN <<text>>
  ELSE LET i == CHOOSE k \in Occurrences(text, sep) :
                  \A m \in Occurrences(text, sep) : k <= m
       IN  <<SubSeq(text, 1, i - 1)>>
             \o split(SubSeq(text, i + Len(sep), Len(text)), sep)

BlankLine == <<"\n","\n">>

\* the blocks expected of the schema texts: each one behind a bullet marker
BulletBlocks(schemas) == [i \in 1..Len(schemas) |-> Bullet \o schemas[i]]

\* a schema text that keeps its block apart from its neighbours
CleanSchema(text) ==
  /\ ~Contains(text, BlankLine)
  /\ text # <<>> => Last(text) # "\n"

\* the search of the current turn returned no candidate
ZeroCandidates ==
  \E i \in CallsOf("search") : calls[i].ok /\ calls[i].ret = <<>>

(***************************************************************************)
(* C6 (as stated): for every sequence of 0 to 3 table names the schema     *)
(* block holds exactly one bullet-prefixed block per name, in input order, *)
(* joined by the blank-line separator, so that splitting the block on the  *)
(* separator recovers the number of table names.                           *)
(***************************************************************************)
C6_Original ==
  pc = "Synthesizing" =>
    /\ Len(split(schema_str, BlankLine)) = Len(table_list)
    /\ split(schema_str, BlankLine) =
         BulletBlocks([i \in 1..Len(table_list) |-> process_schema(table_list[i])])

(***************************************************************************)
(* C6 (amended): for 1 to 3 table names whose schema texts contain no      *)
(* blank line and do not end in a newline, splitting the schema block on   *)
(* the blank line gives exactly one bullet-prefixed block per name, in     *)
(* input order; for no table name the block is the lone bullet marker,     *)
(* which splits into one block.                                            *)
(***************************************************************************)
C6_Amended ==
  pc = "Synthesizing" =>
    LET schemas == [i \in 1..Len(table_list) |-> process_schema(table_list[i])]
    IN  IF table_list = <<>>
        THEN /\ schema_str = Bullet
             /\ Len(split(schema_str, BlankLine)) = 1
        ELSE (\A i \in 1..Len(schemas) : CleanSchema(schemas[i])) =>
               /\ Len(split(schema_str, BlankLine)) = Len(table_list)
               /\ split(schema_str, BlankLine) = BulletBlocks(schemas)

C6_Witness ==
  /\ pc = "Synthesizing"
  /\ table_list = <<"orders", "notes", "ghost">>
  /\ Len(split(schema_str, BlankLine)) = 3

(***************************************************************************)
(* C7 (as stated): when the search returns no candidate the schema block   *)
(* embedded in the prompt is empty, and synthesis still proceeds: the chat *)
(* completion is called and the turn is appended to the history.           *)
(***************************************************************************)
C7_Original ==
  (ZeroCandidates /\ pc \in {"Synthesizing", "AwaitingExecutionDecision"}) =>
    /\ schema_str = <<>>
    /\ pc = "AwaitingExecutionDecision" =>
         /\ \E j \in CallsOf("generate_chat_response") : calls[j].ok
         /\ Last(conversation_history).content = content

(***************************************************************************)
(* C7 (amended): when the search returns no candidate the schema block     *)
(* embedded in the prompt is the lone bullet marker "- ", holding no       *)
(* schema text, and synthesis still proceeds: the chat completion is       *)
(* called with that prompt and the turn is appended to the history.        *)
(***************************************************************************)
C7_Amended ==
  /\ [](  (ZeroCandidates /\ pc \in {"Synthesizing", "AwaitingExecutionDecision"}) =>
            /\ schema_str = Bullet
            /\ prompt = BuildPromptText(user_query, Bullet)
            /\ pc = "AwaitingExecutionDecision" =>
                 /\ \E j \in CallsOf("generate_chat_response") :
                      calls[j].ok /\ calls[j].arg = prompt /\ calls[j].ret = content
                 /\ Len(conversation_history) = 1 + 2 * (completed + 1)
                 /\ conversation_history[Len(conversation_history) - 1] =
                      [role |-> "user", content |-> user_query]
                 /\ Last(conversation_history) =
                      [role |-> "assistant", content |-> content] )
  /\ [][ (ZeroCandidates /\ pc = "Aggregating") => pc' \in {"Aggregating", "Synthesizing"} ]_vars
  /\ [][ (ZeroCandidates /\ pc = "Synthesizing" /\ pc' # pc) =>
           Last(calls').op = "generate_chat_response" ]_vars

C7_Witness ==
  /\ ZeroCandidates
  /\ pc = "AwaitingExecutionDecision"
  /\ completed = 1
  /\ Len(conversation_history) = 5

(***************************************************************************)
(* C8: in every turn the number of schema texts aggregated, and of schema  *)
(* fetches made, equals the number of candidates the search returned       *)
(* (0 to 3): a duplicate name is fetched once per occurrence and a table   *)
(* that cannot be resolved still occupies its position.                    *)
(***************************************************************************)
C8_OneSchemaPerCandidate ==
  pc \in {"Synthesizing", "AwaitingExecutionDecision", "Executing"} =>
    \E s \in CallsOf("search") :
      LET candidates == calls[s].ret
          fetches == [k \in 1..Cardinality(CallsOf("process_schema")) |-> calls[s + k]]
      IN  /\ Len(candidates) \in 0..Top
          /\ Len(schema_list) = Len(candidates)
          /\ Len(fetches) = Len(candidates)
          /\ \A k \in 1..Len(candidates) :
               /\ fetches[k].op = "process_schema"
               /\ fetches[k].arg = <<candidates[k]>>
               /\ schema_list[k] = fetches[k].ret
          /\ schema_str = Bullet \o join(Separator, schema_list)

C8_Witness ==
  /\ pc = "Synthesizing"
  /\ table_list = <<"orders", "ghost", "orders">>
  /\ schema_list = << <<"i","d">>, <<>>, <<"i","d">> >>

(***************************************************************************)
(* C9 (as stated): the session leaves the loop only from AwaitingQuery on  *)
(* an input that is exit or quit in any case, whatever the collaborators   *)
(* return or raise.                                                        *)
(***************************************************************************)
InLoop(state) == state \notin {"Exited", "Crashed"}

C9_Original ==
  [][ (InLoop(pc) /\ ~InLoop(pc')) =>
        (pc = "AwaitingQuery" /\ IsExitWordAnyCase(user_query')) ]_vars

(***************************************************************************)
(* C9 (amended): the loop ends normally only from AwaitingQuery on exit or *)
(* quit in any case; the only other way out is an uncaught failure of a    *)
(* collaborator call made before the execution decision (embedding,        *)
(* search, schema fetch, chat completion). No decision and no execution    *)
(* outcome ends it.                                                        *)
(***************************************************************************)
C9_Amended ==
  [][ (InLoop(pc) /\ ~InLoop(pc')) =>
        \/ /\ pc = "AwaitingQuery"
           /\ pc' = "Exited"
           /\ IsExitWordAnyCase(user_query')
        \/ /\ pc \in {"Retrieving", "Searching", "Aggregating", "Synthesizing"}
           /\ pc' = "Crashed"
           /\ ~Last(calls').ok
           /\ Last(calls').op \in
                {"generate_embedding", "search", "process_schema",
                 "generate_chat_response"} ]_vars

C9_Witness ==
  /\ pc = "Exited"
  /\ completed = 2
  /\ user_query = <<"E","X","I","T">>

(***************************************************************************)
(* C10: a failure of the embedding, search or chat-completion call is not  *)
(* caught: the session ends in that turn with no execution-decision        *)
(* prompt, no execute_and_fetch and no further query prompt; only an       *)
(* execution failure is recovered.                                         *)
(***************************************************************************)
C10_UncaughtFailureEndsSession ==
  /\ [][ (\E c \in NewCalls :
            ~c.ok /\ c.op \in {"generate_embedding", "search", "generate_chat_response"})
          => /\ pc' = "Crashed"
             /\ CallsOf("get_run_query_decision")' = {}
             /\ CallsOf("execute_and_fetch")' = {} ]_vars
  /\ [][ pc # "Crashed" ]_vars
  /\ [][ pc' = "Crashed" => ~Last(calls').ok /\ Last(calls').op # "execute_and_fetch" ]_vars

C10_Witness ==
  /\ pc = "Crashed"
  /\ completed = 1
  /\ Last(calls).op = "generate_chat_response"
  /\ ~Last(calls).ok

(***************************************************************************)
(* C12: in every reachable state the history holds exactly one system      *)
(* turn, it is the first entry, and its content is the startup system      *)
(* message; no step removes, replaces or duplicates it.                    *)
(***************************************************************************)
SystemTurns == { i \in DOMAIN conversation_history : conversation_history[i].role = "system" }

C12_OneSystemTurn ==
  /\ conversation_history # <<>>
  /\ conversation_history[1] = [role |-> "system", content |-> system_message]
  /\ SystemTurns = {1}

C12_Witness ==
  /\ pc = "AwaitingExecutionDecision"
  /\ Len(conversation_history) = 5
  /\ Cardinality(SystemTurns) = 1

(***************************************************************************)
(* C13: every step leaves the history unchanged or appends exactly the     *)
(* pair (user, question), (assistant, sql_text) to its end; the append     *)
(* happens only in the step of a successful chat completion; retrieval,    *)
(* aggregation, the decision and the execution (success or failure) leave  *)
(* it unchanged, and no existing entry is modified or pruned.              *)
(***************************************************************************)
C13_HistoryOnlyGrowsByPairs ==
  [][ \/ conversation_history' = conversation_history
      \/ /\ pc = "Synthesizing"
         /\ Last(calls').op = "generate_chat_response"
         /\ Last(calls').ok
         /\ conversation_history' =
              conversation_history
                \o << [role |-> "user", content |-> user_query],
                      [role |-> "assistant", content |-> Last(calls').ret] >> ]_vars

C13_Witness ==
  /\ pc = "AwaitingQuery"
  /\ Len(conversation_history) = 5
  /\ \E i \in CallsOf("execute_and_fetch") : ~calls[i].ok
  /\ conversation_history[2].content = asked[1]
  /\ conversation_history[4].content = asked[2]

(***************************************************************************)
(* C14: within a turn the states occur in the order AwaitingQuery,         *)
(* Retrieving, Aggregating, Synthesizing, AwaitingExecutionDecision, then  *)
(* Executing or straight back, then AwaitingQuery; every execute_and_fetch *)
(* is preceded in its turn by one embedding call, one search call, the     *)
(* schema fetches, one chat completion and a "yes" decision, in that       *)
(* order, and happens at most once per turn.                               *)
(***************************************************************************)
OpRank(op) ==
  CASE op = "get_user_query"          -> 1
    [] op = "generate_embedding"      -> 2
    [] op = "search"                  -> 3
    [] op = "process_schema"          -> 4
    [] op = "generate_chat_response"  -> 5
    [] op = "get_run_query_decision"  -> 6
    [] op = "execute_and_fetch"       -> 7
    [] op = "pretty_print_results"    -> 8
    [] OTHER                          -> 9

TurnEdges ==
  { <<"AwaitingQuery", "Retrieving">>, <<"AwaitingQuery", "Exited">>,
    <<"Retrieving", "Searching">>, <<"Searching", "Aggregating">>,
    <<"Aggregating", "Synthesizing">>,
    <<"Synthesizing", "AwaitingExecutionDecision">>,
    <<"AwaitingExecutionDecision", "Executing">>,
    <<"AwaitingExecutionDecision", "AwaitingQuery">>,
    <<"Executing", "AwaitingQuery">>,
    <<"Retrieving", "Crashed">>, <<"Searching", "Crashed">>,
    <<"Aggregating", "Crashed">>, <<"Synthesizing", "Crashed">> }

OneOkCall(op) ==
  /\ Cardinality(CallsOf(op)) = 1
  /\ \A i \in CallsOf(op) : calls[i].ok

C14_TurnOrder ==
  /\ [][ pc' # pc => <<pc, pc'>> \in TurnEdges ]_vars
  /\ []( \A i \in 1..(Len(calls) - 1) :
            \/ OpRank(calls[i].op) < OpRank(calls[i + 1].op)
            \/ calls[i].op = "process_schema" /\ calls[i + 1].op = "process_schema" )
  /\ []( CallsOf("execute_and_fetch") # {} =>
            /\ Cardinality(CallsOf("execute_and_fetch")) = 1
            /\ OneOkCall("generate_embedding")
            /\ OneOkCall("search")
            /\ \A i \in CallsOf("process_schema") : calls[i].ok
            /\ \A i \in CallsOf("search") :
                 Cardinality(CallsOf("process_schema")) = Len(calls[i].ret)
            /\ OneOkCall("generate_chat_response")
            /\ Cardinality(CallsOf("get_run_query_decision")) = 1
            /\ \A i \in CallsOf("get_run_query_decision") :
                 IsYesTrimmedAnyCase(calls[i].ret) )

C14_Witness ==
  /\ pc = "AwaitingQuery"
  /\ \E i \in CallsOf("execute_and_fetch") : calls[i].ok
  /\ Cardinality(CallsOf("process_schema")) = 3
  /\ Len(calls) = 10

(***************************************************************************)
(* C15: on the i-th chat-completion call the history passed as context is  *)
(* the system turn followed by the 2(i-1) user/assistant entries of the    *)
(* prior turns; it does not yet hold the current question, which reaches   *)
(* the model only inside the newly built prompt.                           *)
(***************************************************************************)
C15_ContextIsPriorTurns ==
  [][ (pc = "Synthesizing" /\ pc' # pc) =>
        /\ Last(calls').op = "generate_chat_response"
        /\ Len(history_sent') = 1 + 2 * syntheses
        /\ history_sent'[1] = [role |-> "system", content |-> system_message]
        /\ \A k \in 1..syntheses :
             /\ history_sent'[2 * k] = [role |-> "user", content |-> asked[k]]
             /\ history_sent'[2 * k + 1].role = "assistant"
        /\ Len(asked) = syntheses + 1
        /\ user_query = asked[syntheses + 1]
        /\ Last(calls').arg = BuildPromptText(user_query, schema_str)
        /\ Contains(Last(calls').arg, user_query) ]_vars

C15_Witness ==
  /\ pc = "AwaitingExecutionDecision"
  /\ syntheses = 2
  /\ Len(history_sent) = 3
  /\ Len(conversation_history) = 5

(***************************************************************************)
(* C16: the grounding context of a turn comes only from that turn's        *)
(* retrieval: table list and schema list are rebuilt from empty at every   *)
(* turn, so the schema block in the prompt holds the schemas of exactly    *)
(* the candidates returned in this turn, none carried over, also when this *)
(* turn returns fewer candidates than the turn before.                     *)
(***************************************************************************)
SchemasOf(names) == [k \in 1..Len(names) |-> process_schema(names[k])]

C16_GroundingIsFresh ==
  /\ pc = "Aggregating" =>
       \E s \in CallsOf("search") :
         /\ table_list = calls[s].ret
         /\ Len(schema_list) <= Len(table_list)
         /\ schema_list = SubSeq(SchemasOf(calls[s].ret), 1, Len(schema_list))
  /\ pc \in {"Synthesizing", "AwaitingExecutionDecision", "Executing"} =>
       \E s \in CallsOf("search") :
         /\ table_list = calls[s].ret
         /\ schema_list = SchemasOf(calls[s].ret)
         /\ schema_str = Bullet \o join(Separator, SchemasOf(calls[s].ret))
         /\ prompt = BuildPromptText(user_query,
                                     Bullet \o join(Separator, SchemasOf(calls[s].ret)))

C16_Witness ==
  /\ pc = "Synthesizing"
  /\ completed = 1
  /\ prev_candidates = 3
  /\ table_list = <<"orders">>
  /\ schema_str = <<"-"," ","i","d">>

(***************************************************************************)
(* C17: the two history entries of a turn are appended before the          *)
(* execution-decision prompt is shown, so the turn counts whether the      *)
(* operator confirms, declines or the execution fails: at every            *)
(* AwaitingExecutionDecision state the history ends with (user, current    *)
(* question), (assistant, current SQL), and at every AwaitingQuery state   *)
(* its length is 1 + 2 * (number of successful syntheses so far).          *)
(***************************************************************************)
C17_AppendedBeforeDecision ==
  /\ []( pc = "AwaitingExecutionDecision" =>
            /\ CallsOf("get_run_query_decision") = {}
            /\ Len(conversation_history) >= 3
            /\ conversation_history[Len(conversation_history) - 1] =
                 [role |-> "user", content |-> user_query]
            /\ Last(conversation_history) = [role |-> "assistant", content |-> content]
            /\ Last(calls).op = "generate_chat_response"
            /\ Last(calls).ret = content )
  /\ []( pc = "AwaitingQuery" => Len(conversation_history) = 1 + 2 * syntheses )
  /\ [][ (pc \in {"AwaitingExecutionDecision", "Executing"}) =>
           (conversation_history' = conversation_history) ]_vars

C17_Witness ==
  /\ pc = "AwaitingQuery"
  /\ syntheses = 1
  /\ Len(conversation_history) = 3
  /\ \E i \in CallsOf("execute_and_fetch") : ~calls[i].ok

(***************************************************************************)
(* C18: exit and quit are recognised only at the query prompt: typed at    *)
(* the execution-decision prompt they decline the execution, do not end    *)
(* the session and do not contact the database; the loop returns to        *)
(* AwaitingQuery.                                                          *)
(***************************************************************************)
C18_ExitOnlyAtQueryPrompt ==
  /\ [][ (pc = "AwaitingExecutionDecision" /\ pc' # pc
            /\ IsExitWordAnyCase(Last(calls').ret)) =>
           /\ Last(calls').op = "get_run_query_decision"
           /\ pc' = "AwaitingQuery"
           /\ CallsOf("execute_and_fetch")' = {} ]_vars
  /\ [][ (pc' = "Exited" /\ pc # "Exited") => pc = "AwaitingQuery" ]_vars

C18_Witness ==
  /\ pc = "AwaitingQuery"
  /\ calls # <<>>
  /\ Last(calls).op = "get_run_query_decision"
  /\ Last(calls).ret = <<"Q","u","i","t">>
  /\ completed = 1

(***************************************************************************)
(* C19: provided every collaborator call returns (a result, or for         *)
(* execute_and_fetch possibly an exception) and the search returns at most *)
(* Top results, every turn started with a non-exit input eventually        *)
(* returns to AwaitingQuery, and once the operator has typed exit or quit  *)
(* at a query prompt the session reaches Exited. A collaborator that       *)
(* raises instead of returning ends the turn in Crashed.                   *)
(***************************************************************************)
TurnStep ==
  \/ GenerateEmbedding
  \/ Search
  \/ ProcessSchema
  \/ BuildPrompt
  \/ GenerateChatResponse
  \/ GetRunQueryDecision
  \/ ExecuteAndFetch

\* every pending call of a turn returns and the decision prompt is answered;
\* nothing obliges the operator to type a further query
FairSpec == Spec /\ WF_vars(TurnStep)

InTurn ==
  pc \in {"Retrieving", "Searching", "Aggregating", "Synthesizing",
          "AwaitingExecutionDecision", "Executing"}

ExitTyped ==
  /\ calls # <<>>
  /\ Last(calls).op = "get_user_query"
  /\ IsExitWordAnyCase(Last(calls).ret)

C19_TurnsTerminate ==
  /\ (pc \notin {"AwaitingQuery", "Exited", "Crashed"})
        ~> (pc \in {"AwaitingQuery", "Crashed"})
  /\ ExitTyped ~> (pc = "Exited")

C19_Witness ==
  /\ pc = "Exited"
  /\ completed = 1
  /\ ExitTyped
  /\ syntheses = 1

====
